---- MODULE Spec2Model ----
(***************************************************************************)
(* Verification model of the client-side hooks of the SaaS-LMS repository  *)
(* (src/src/hooks/groups/index.tsx): useSearch, useGroupSettings,          *)
(* useMediaGallery, useCustomDomain, useGroupChatOnline and useChatWindow. *)
(* Each hook is a state machine of its own; the module holds one           *)
(* specification per hook (SpecSearch, SpecSettings, ...), each leaving    *)
(* the other hooks' variables alone.                                       *)
(***************************************************************************)
EXTENDS Integers, Sequences, FiniteSets, TLC

VARIABLES
    \* ---- useSearch (index.tsx 131-185)
    query,                \* useState query (line 132)
    debounce,             \* useState debounce (line 133)
    delayInputTimeoutId,  \* the pending timer: <<>> or <<q>>, q the query its closure holds
    elapsed,              \* ms since the pending timer was set
    fetches,              \* terms refetch() was issued for, in order (line 177)
    clears,               \* number of dispatch(onClearSearch()) (line 178), capped
    nChanges,             \* number of query changes so far (bounds the run)
    burstLen,             \* history: query changes since the last timer callback ran
    burstFast,            \* history: every change of the burst came < Delay after the previous
    burstFetches,         \* history: refetches issued since the burst began
    debBefore,            \* history: debounce when the burst began
    searchMounted,        \* the component using the hook is mounted
    fetching,             \* keys of ["search-data", key] with a fetch in flight (147-157)
    fetchedKeys,          \* keys of ["search-data", key] that hold fetched data
    searchStore,          \* the store's search state
    startedAt,            \* history, per key: position in fetches of its latest refetch()
    landed,               \* history: the responses that arrived, [key, at], in arrival order
    \* ---- useGroupSettings (index.tsx 219-408)
    groupid,              \* the hook's parameter (line 219)
    values,               \* the submitted form values of the current run (line 282)
    pc,                   \* position of mutationFn: [at, n], n the field it awaits
    uploadCalls,          \* fields upload.uploadFile was called for, in order
    calls,                \* onUpDateGroupSettings calls [tag, value, path], in order
    outcomes,             \* what each awaited call returned, in order
    toasts,               \* notifications [title, description] of the run, in order
    invalidated,          \* onSuccess has invalidated ["group-info"] (385-389)
    failedStep,           \* history: the step of the run that failed, 0 when none has
    groupInfo,            \* useQuery data?.status of ["group-info"] (220-223): "undefined" without data
    infoFetching,         \* a fetch of ["group-info"] is in flight
    redirecting,          \* the hook's latest render called router.push("/group/create") (393)
    \* ---- useMediaGallery (index.tsx 626-702)
    galleryValues,        \* the submitted values of the current add run (line 637)
    galleryPc,            \* position of mutationFn: idle, video, upload, commit, resolved, rejected
    count,                \* the loop counter (line 647)
    galleryUploads,       \* indices of the files upload.uploadFile was called for, in order
    galleryCommits,       \* arguments of the onUpdateGroupGallery calls, in order
    gallery,              \* arguments of the calls that returned status 200, in order
    galleryToasts,        \* notifications of the run, in order
    videoResult,          \* history: what the run's video url commit returned, "" before
    buttonPending,        \* per gallery entry: isPending of its AboutRemoveButton
    confirmOpen,          \* gallery entries with a removal confirmation toast open
    removing,             \* media ids of the remove mutations in flight, in start order
    removeToasts,         \* notifications of the remove mutations, in order
    nRemoves,             \* number of remove mutations started (bounds the run)
    userid,               \* MediaGallery's prop userid: the viewing user (part_001 line 14)
    activeMedia,          \* the entry last handed to onActive (part_001 58-63), "" before
    \* ---- useCustomDomain (index.tsx 795-837)
    serverDomain,         \* the group's domain as the server holds it
    domainData,           \* useQuery data of ["domain-config"] (807-810)
    domainFetching,       \* a fetch of ["domain-config"] is in flight
    domainFetched,        \* history: the values fetches of ["domain-config"] returned
    domainPending,        \* domains of the add mutations in flight, in start order
    domainOutcomes,       \* results of the add mutations that settled, in order
    domainInvalidations,  \* number of invalidateQueries(["domain-config"]) (822-824)
    domainRefetches,      \* number of fetches those invalidations started
    domainToasts,         \* titles of the notifications (817-819), in order
    domainAdds,           \* number of add mutations started (bounds the run)
    domainEvents,         \* history: the notifications' titles and the invalidations, in order
    \* ---- useGroupChatOnline (index.tsx 70-102), one hook per client
    status,               \* per client: DISCONNECTED (not mounted), JOINING, SUBSCRIBED, CLOSED
    tracked,              \* per client: channel.track has been called (90-94)
    serverSide,           \* per client, at the realtime server: none, joined, tracked, gone
    inbox,                \* per client: channel messages sent to it and not yet received
    presenceState,        \* per client: channel.presenceState(), the keys it holds
    online,               \* per client: the member ids in its store's online-members state
    rejected,             \* per client: the channel is rejoining after a failed subscription
    channels,             \* history, per client: number of supabaseClient.channel calls (74)
    unsubscribes,         \* history, per client: number of channel.unsubscribe calls (99)
    \* ---- useChatWindow (index.tsx 715-769)
    messages,             \* the Message table at the server: message ids in insertion order
    isFetched,            \* useQuery isFetched of ["user-messages"] (716-719)
    chatData,             \* useQuery data.messages
    changes,              \* change events of the subscription not yet delivered: [shape, new]
    chat,                 \* the store's chat state
    deliveredEarly,       \* history: rows delivered before the history fetch resolved
    deliveredLive,        \* history: rows delivered after the history fetch resolved
    chatMounted,          \* the component using useChatWindow is mounted
    subscriptions,        \* live "table-db-changes" subscriptions of this client (732-757)
    chatMounts,           \* history: number of mounts so far (bounds the run)
    deliveredUnmounted,   \* history: rows dispatched by the handler while unmounted
    \* ---- the description editors of useGroupSettings (225-278) and
    \*      useGroupAbout (494-530), one of each
    editorMounted,        \* per hook: the component using it is mounted
    onJsonDescription,    \* per hook: useState onJsonDescription, the structured document
    onDescription,        \* per hook: useState onDescription, the plain description
    onHtmlDescription,    \* useGroupAbout's useState onHtmlDescription (504-506)
    formFields,           \* per hook: the form's jsondescription, description, htmldescription
    effectClosure,        \* per hook: the state values of the render whose effect ran last
    sentValues,           \* per hook: the description fields of the last submit, if any
    nEdits,               \* number of editor changes so far (bounds the run)
    \* ---- the middleware (unnamed/part_002)
    requests,             \* history: the requests served, [path, ran, protect]
    \* ---- Menu of the group navbar (group-navbar/index.tsx 13-72)
    section,              \* useNavigation's section, the active menu section
    location,             \* the path the last clicked link navigated to, "" before
    clicks                \* history: the links clicked, [orientation, groupId, path, href]

searchVars == <<query, debounce, delayInputTimeoutId, elapsed, fetches, clears,
                nChanges, burstLen, burstFast, burstFetches, debBefore,
                searchMounted, fetching, fetchedKeys, searchStore, startedAt,
                landed>>

settingsVars == <<groupid, values, pc, uploadCalls, calls, outcomes, toasts,
                  invalidated, failedStep, groupInfo, infoFetching, redirecting>>

addVars == <<galleryValues, galleryPc, count, galleryUploads, galleryCommits,
             gallery, galleryToasts, videoResult>>

removeVars == <<buttonPending, confirmOpen, removing, removeToasts, nRemoves,
                userid, activeMedia>>

galleryVars == <<addVars, removeVars>>

domainVars == <<serverDomain, domainData, domainFetching, domainFetched,
                domainPending, domainOutcomes, domainInvalidations,
                domainRefetches, domainToasts, domainAdds, domainEvents>>

presenceVars == <<status, tracked, serverSide, inbox, presenceState, online,
                  rejected, channels, unsubscribes>>

chatVars == <<messages, isFetched, chatData, changes, chat, deliveredEarly,
              deliveredLive,
             chatMounted, subscriptions, chatMounts, deliveredUnmounted>>

editorVars == <<editorMounted, onJsonDescription, onDescription, onHtmlDescription,
                formFields, effectClosure, sentValues, nEdits>>

middlewareVars == <<requests>>

menuVars == <<section, location, clicks>>

vars == <<searchVars, settingsVars, galleryVars, domainVars, presenceVars, chatVars,
          editorVars,
         middlewareVars, menuVars>>

\* What each hook's steps leave alone: the other hooks' variables.
notSearchVars == <<settingsVars, galleryVars, domainVars, presenceVars, chatVars,
                   editorVars,
    middlewareVars, menuVars>>
notSettingsVars == <<searchVars, galleryVars, domainVars, presenceVars, chatVars,
                     editorVars,
    middlewareVars, menuVars>>
notGalleryVars == <<searchVars, settingsVars, domainVars, presenceVars, chatVars,
                    editorVars,
    middlewareVars, menuVars>>
notDomainVars == <<searchVars, settingsVars, galleryVars, presenceVars, chatVars,
                   editorVars,
    middlewareVars, menuVars>>
notPresenceVars == <<searchVars, settingsVars, galleryVars, domainVars, chatVars,
                     editorVars,
    middlewareVars, menuVars>>
notChatVars == <<searchVars, settingsVars, galleryVars, domainVars, presenceVars,
                 editorVars,
    middlewareVars, menuVars>>
notEditorVars == <<searchVars, settingsVars, galleryVars, domainVars, presenceVars,
                   chatVars,
    middlewareVars, menuVars>>
notMiddlewareVars == <<searchVars, settingsVars, galleryVars, domainVars,
    presenceVars, chatVars, editorVars, menuVars>>
notMenuVars == <<searchVars, settingsVars, galleryVars, domainVars, presenceVars,
    chatVars, editorVars, middlewareVars>>

----------------------------------------------------------------------------
(* Bounds *)
MaxChanges == 4

MaxFiles == 1

MaxImages == 3

MaxAdds == 3

MaxRemoves == 1

MaxClients == 2

MaxMessages == 3

MaxEdits == 3

MaxMounts == 2

MaxRequests == 3

MaxClicks == 2

(* Program constants *)
Delay == 1000

Terms == {"", "a", "b"}
TickSteps == {250, 499}

Min(a, b) == IF a < b THEN a ELSE b

----------------------------------------------------------------------------
(* useSearch *)

\* The effect on [debounce] (lines 176-182), as its result on the log of
\* refetches: refetch() when debounce is non-empty.
DebounceEffectAlwaysRefetch(log, d) == Append(log, d)

DebounceEffectFetches(log, d) == IF d # "" THEN Append(log, d) ELSE log

\* ... and on the number of onClearSearch dispatches.
DebounceEffectClears(n, d) == IF d = "" THEN Min(n + 1, MaxChanges + 1) ELSE n

\* The cleanup of the [query] effect (line 144) on the pending timers, and
\* the effect's setTimeout (141-143); first, a cleanup that clears nothing.
ClearTimeoutNothing(timers) == timers

ClearTimeout(timers) == <<>>

SetTimeout(timers, q) == Append(timers, q)

\* onSearchGroups' answer for a term (150-151): the groups matching it.
Groups(k) == <<k>>

\* The store's search state when nothing has been searched, and its two
\* reducers: onSearch merges its payload into the state, onClearSearch
\* resets it.
NoSearch == [isSearching |-> FALSE, data |-> <<>>, debounce |-> ""]

OnSearch(state, payload) ==
    [f \in DOMAIN state |-> IF f \in DOMAIN payload THEN payload[f] ELSE state[f]]

OnClearSearch(state) == NoSearch

\* The key of the query whose state the hook reads: its own debounce (line
\* 148), whichever key k a response has just arrived for; first, a hook that
\* reads the query of the response.
ObservedKeyOfResponse(d, k) == k

ObservedKey(d, k) == d

\* The dispatches in the render body (159-174) for the observed key d.
SearchDispatch(state, d, inFlight, fetched) ==
    LET s1 == IF d \in inFlight
                 THEN OnSearch(state, [isSearching |-> TRUE, data |-> <<>>])
                 ELSE state
    IN  IF d \in fetched
           THEN OnSearch(s1, [isSearching |-> FALSE, data |-> Groups(d),
                              debounce |-> d])
           ELSE s1

\* The store after the [debounce] effect (176-182) ran for a new value d:
\* the render with the new key, then refetch() and the render it causes, or
\* the dispatch of onClearSearch; first, an effect that leaves the store.
DebounceEffectStoreKept(state, d, inFlight, fetched) ==
    SearchDispatch(state, d, inFlight, fetched)

DebounceEffectStore(state, d, inFlight, fetched) ==
    LET rendered == SearchDispatch(state, d, inFlight, fetched) IN
    IF d # ""
       THEN SearchDispatch(rendered, d, inFlight \cup {d}, fetched)
       ELSE OnClearSearch(rendered)

\* State after the first render and its effects: the [query] effect has set a
\* timer holding "", the [debounce] effect has dispatched onClearSearch.
InitSearch ==
    /\ query = ""
    /\ debounce = ""
    /\ delayInputTimeoutId = <<"">>
    /\ elapsed = 0
    /\ fetches = DebounceEffectFetches(<<>>, "")
    /\ clears = DebounceEffectClears(0, "")
    /\ nChanges = 0
    /\ burstLen = 0
    /\ burstFast = TRUE
    /\ burstFetches = <<>>
    /\ debBefore = ""
    /\ searchMounted = TRUE
    /\ fetching = {}
    /\ fetchedKeys = {}
    /\ searchStore = OnClearSearch(NoSearch)
    /\ startedAt = [k \in Terms |-> 0]
    /\ landed = <<>>

\* onSearchQuery (137-138) with a value other than the current one, the
\* re-render it causes, and the [query] effect (140-145): the cleanup clears
\* the pending timer and a new one is set.
OnSearchQuery(v) ==
    /\ searchMounted
    /\ v # query
    /\ nChanges < MaxChanges
    /\ query' = v
    /\ delayInputTimeoutId' = SetTimeout(ClearTimeout(delayInputTimeoutId), v)
    /\ searchStore' = SearchDispatch(searchStore, debounce, fetching, fetchedKeys)
    /\ elapsed' = 0
    /\ nChanges' = nChanges + 1
    /\ IF delayInputTimeoutId # <<>> /\ burstLen > 0
          THEN /\ burstLen' = burstLen + 1
               /\ burstFast' = (burstFast /\ elapsed < Delay)
               /\ UNCHANGED <<burstFetches, debBefore>>
          ELSE /\ burstLen' = 1
               /\ burstFast' = TRUE
               /\ burstFetches' = <<>>
               /\ debBefore' = debounce
    /\ UNCHANGED <<debounce, fetches, clears, searchMounted, fetching,
                   fetchedKeys, startedAt, landed>>

\* Time passes while a timer is pending; it cannot pass the timer's deadline
\* without the timer becoming due.
Tick(d) ==
    /\ delayInputTimeoutId # <<>>
    /\ elapsed < Delay
    /\ elapsed' = Min(elapsed + d, Delay)
    /\ UNCHANGED <<query, debounce, delayInputTimeoutId, fetches, clears,
                   nChanges, burstLen, burstFast, burstFetches, debBefore,
                   searchMounted, fetching, fetchedKeys, searchStore,
                   startedAt, landed>>

\* The timer callback (141-143): setDebounce(query of its closure).  When the
\* state changes, the hook re-renders and the [debounce] effect runs (176-182).
TimerFires ==
    /\ delayInputTimeoutId # <<>>
    /\ elapsed >= Delay
    /\ LET q == Head(delayInputTimeoutId) IN
        /\ debounce' = q
        /\ IF q # debounce
              THEN /\ fetches' = DebounceEffectFetches(fetches, q)
                   /\ burstFetches' = DebounceEffectFetches(burstFetches, q)
                   /\ clears' = DebounceEffectClears(clears, q)
                   /\ fetching' = IF q # "" THEN fetching \cup {q} ELSE fetching
                   /\ startedAt' = IF q # ""
                                      THEN [startedAt EXCEPT ![q] = Len(fetches')]
                                      ELSE startedAt
                   /\ searchStore' = DebounceEffectStore(searchStore, q, fetching,
                                                         fetchedKeys)
              ELSE UNCHANGED <<fetches, burstFetches, clears, fetching,
                               startedAt, searchStore>>
    /\ delayInputTimeoutId' = Tail(delayInputTimeoutId)
    /\ elapsed' = 0
    /\ UNCHANGED <<query, nChanges, burstLen, burstFast, debBefore,
                   searchMounted, fetchedKeys, landed>>

\* A response of onSearchGroups arrives for key k (149-155).  The query
\* cache takes it; the hook re-renders, and dispatches (159-174), when it is
\* mounted and k is the key it observes.
FetchResolves(k) ==
    /\ k \in fetching
    /\ fetching' = fetching \ {k}
    /\ fetchedKeys' = fetchedKeys \cup {k}
    /\ landed' = Append(landed, [key |-> k, at |-> startedAt[k]])
    /\ LET o == ObservedKey(debounce, k) IN
        searchStore' = IF searchMounted /\ k = o
                          THEN SearchDispatch(searchStore, o, fetching', fetchedKeys')
                          ELSE searchStore
    /\ UNCHANGED <<query, debounce, delayInputTimeoutId, elapsed, fetches,
                   clears, nChanges, burstLen, burstFast, burstFetches,
                   debBefore, searchMounted, startedAt>>

\* The component unmounts: the cleanup of the [query] effect clears the
\* pending timer (line 144).  Fetches in flight go on.
SearchUnmount ==
    /\ searchMounted
    /\ searchMounted' = FALSE
    /\ delayInputTimeoutId' = ClearTimeout(delayInputTimeoutId)
    /\ elapsed' = 0
    /\ UNCHANGED <<query, debounce, fetches, clears, nChanges, burstLen,
                   burstFast, burstFetches, debBefore, fetching, fetchedKeys,
                   searchStore, startedAt, landed>>

NextSearch ==
    \/ \E v \in Terms :
          OnSearchQuery(v) /\ UNCHANGED notSearchVars
    \/ \E d \in TickSteps :
          Tick(d) /\ UNCHANGED notSearchVars
    \/ TimerFires /\ UNCHANGED notSearchVars
    \/ \E k \in Terms :
          FetchResolves(k) /\ UNCHANGED notSearchVars
    \/ SearchUnmount /\ UNCHANGED notSearchVars


----------------------------------------------------------------------------
(* useGroupSettings: the mutation behind onUpdate (lines 280-392) *)

GroupIds == {"g1", "g2"}
Names == {"", "Alpha"}
Descriptions == {"", "d"}
JsonDescriptions == {"", "j"}
Uuids == {"u1", "u2"}

\* The form values: thumbnail and icon are file lists, given by their length.
Values == [thumbnail : 0..MaxFiles, icon : 0..MaxFiles, name : Names,
           description : Descriptions, jsondescription : JsonDescriptions]

\* The steps of mutationFn in program order (283, 306, 329, 344, 357), then
\* the final checks (370-383) and the end of the run.
Fields == <<"thumbnail", "icon", "name", "description", "jsondescription">>
FinalChecks == Len(Fields) + 1
Returned == Len(Fields) + 2

\* The field-name tag of each step's update call (291, 314, 332, 347, 360).
TagNameAsDescription(n) ==
    <<"IMAGE", "ICON", "DESCRIPTION", "DESCRIPTION", "JSONDESCRIPTION">>[n]

Tag(n) == <<"IMAGE", "ICON", "NAME", "DESCRIPTION", "JSONDESCRIPTION">>[n]

\* The redirect path every update call carries (293, 316, 334, 349, 362).
SettingsPath(g) == <<"/group/", g, "/settings">>

\* A step's guard (283, 306, 329, 344, 357); first, the guard of a file step
\* without its length test.
PresentAnyFileList(v, n) ==
    IF n <= 2 THEN TRUE ELSE v[Fields[n]] # ""

Present(v, n) ==
    IF n <= 2 THEN v[Fields[n]] > 0 ELSE v[Fields[n]] # ""

\* The guard of the final "empty form" report (370-376); first, two slips of
\* it: never true, and its conjunctions read as disjunctions.
EmptyFormAny(v) ==
    \/ v.description = ""
    \/ v.name = ""
    \/ v.thumbnail = 0
    \/ v.icon = 0
    \/ v.jsondescription = ""

EmptyFormNever(v) == FALSE

EmptyForm(v) ==
    /\ v.description = ""
    /\ v.name = ""
    /\ v.thumbnail = 0
    /\ v.icon = 0
    /\ v.jsondescription = ""

ErrorToast(d) == [title |-> "Error", description |-> d]
SuccessToast(d) == [title |-> "Success", description |-> d]
EmptyFormText == "Oops! looks like your form is empty"

\* The notification of a failed step: the catch blocks of the thumbnail and
\* icon steps (298-303, 321-326), the status checks of the others (336-340,
\* 351-355, 364-368).
FailureToast(n) ==
    IF n = 1 THEN ErrorToast("Failed to update thumbnail.")
    ELSE IF n = 2 THEN ErrorToast("Failed to update icon.")
    ELSE ErrorToast(EmptyFormText)

\* Where the run goes after reporting a failed step n: every failure branch
\* is a `return toast(...)`, which ends mutationFn.
StageAfterFailureContinue(n) == n + 1

StageAfterFailure(n) == Returned

\* The first step at or after k whose guard holds, else the final checks.
NextStage(v, k) ==
    IF \E n \in k..Len(Fields) : Present(v, n)
       THEN CHOOSE n \in k..Len(Fields) :
                Present(v, n) /\ \A m \in k..(n - 1) : ~Present(v, m)
       ELSE FinalChecks

\* mutationFn running from step k until its next await or its end, given the
\* form values v and the run's notifications ts, upload calls us and update
\* calls cs so far.
RunFrom(v, k, ts, us, cs) ==
    LET n == IF k = Returned THEN Returned ELSE NextStage(v, k) IN
    IF n <= 2 THEN
        \* upload.uploadFile(values.thumbnail[0]) (285), (values.icon[0]) (308)
        /\ uploadCalls' = Append(us, Fields[n])
        /\ calls' = cs
        /\ toasts' = ts
        /\ pc' = [at |-> "upload", n |-> n]
        /\ invalidated' = FALSE
        /\ UNCHANGED infoFetching
    ELSE IF n <= Len(Fields) THEN
        \* onUpDateGroupSettings(groupid, tag, value, path) (330, 345, 358)
        /\ uploadCalls' = us
        /\ calls' = Append(cs, [tag |-> Tag(n), value |-> v[Fields[n]],
                                path |-> SettingsPath(groupid)])
        /\ toasts' = ts
        /\ pc' = [at |-> "update", n |-> n]
        /\ invalidated' = FALSE
        /\ UNCHANGED infoFetching
    ELSE
        \* mutationFn resolves: the final report (370-383) unless it has
        \* returned already, then onSuccess (385-389)
        /\ uploadCalls' = us
        /\ calls' = cs
        /\ toasts' = IF n = Returned THEN ts
                     ELSE IF EmptyForm(v) THEN Append(ts, ErrorToast(EmptyFormText))
                     ELSE Append(ts, SuccessToast("Group data updated"))
        /\ pc' = [at |-> "resolved", n |-> 0]
        /\ invalidated' = TRUE
        /\ infoFetching' = TRUE

\* The statuses onGetGroupInfo answers with, and the render body's test
\* (393) of data?.status, "undefined" while there is no data; first, a test
\* for the not-found status alone.
InfoStatuses == {"200", "400", "404"}

RedirectsOnNotFound(st) == st = "404"

Redirects(st) == st # "200"

\* At the first render the cache of ["group-info"] is empty or holds an
\* earlier answer; the query fetches.
InitSettings ==
    /\ groupInfo \in {"undefined"} \cup InfoStatuses
    /\ infoFetching = TRUE
    /\ redirecting = Redirects(groupInfo)
    /\ groupid \in GroupIds
    /\ values = [thumbnail |-> 0, icon |-> 0, name |-> "", description |-> "",
                 jsondescription |-> ""]
    /\ pc = [at |-> "idle", n |-> 0]
    /\ uploadCalls = <<>>
    /\ calls = <<>>
    /\ outcomes = <<>>
    /\ toasts = <<>>
    /\ invalidated = FALSE
    /\ failedStep = 0

\* onUpdate (392) with validated values v: update(v) starts mutationFn, which
\* runs to its first await.  One run at a time; its logs start empty.
Submit(v) ==
    /\ pc.at \in {"idle", "resolved", "rejected"}
    /\ values' = v
    /\ outcomes' = <<>>
    /\ failedStep' = 0
    /\ RunFrom(v, 1, <<>>, <<>>, <<>>)
    /\ UNCHANGED <<groupid, groupInfo, redirecting>>

\* upload.uploadFile returns (285-288, 308-311).  With a uuid, the update call
\* is issued (289-294, 312-317); with none, or when it throws, the catch block
\* reports (298-303, 321-326).
UploadReturns(o) ==
    /\ pc.at = "upload"
    /\ outcomes' = Append(outcomes, o)
    /\ failedStep' = IF ~o.threw /\ o.uuid # "" THEN failedStep ELSE pc.n
    /\ IF ~o.threw /\ o.uuid # ""
          THEN /\ calls' = Append(calls, [tag |-> Tag(pc.n), value |-> o.uuid,
                                          path |-> SettingsPath(groupid)])
               /\ pc' = [at |-> "update", n |-> pc.n]
               /\ UNCHANGED <<uploadCalls, toasts, invalidated, infoFetching>>
          ELSE RunFrom(values, StageAfterFailure(pc.n),
                       Append(toasts, FailureToast(pc.n)), uploadCalls, calls)
    /\ UNCHANGED <<groupid, values, groupInfo, redirecting>>

\* onUpDateGroupSettings returns.  Status 200: on to the next step.  Another
\* status: the step reports and the run goes where StageAfterFailure says
\* (295-303, 318-326, 336-340, 351-355, 364-368).  A rejected call is caught
\* in the thumbnail and icon steps only; elsewhere it rejects the mutation.
UpdateReturns(o) ==
    /\ pc.at = "update"
    /\ outcomes' = Append(outcomes, o)
    /\ failedStep' = IF ~o.threw /\ o.status = 200 THEN failedStep ELSE pc.n
    /\ IF ~o.threw /\ o.status = 200
          THEN RunFrom(values, pc.n + 1, toasts, uploadCalls, calls)
          ELSE IF o.threw /\ pc.n > 2
          THEN /\ pc' = [at |-> "rejected", n |-> 0]
               /\ UNCHANGED <<uploadCalls, calls, toasts, invalidated, infoFetching>>
          ELSE RunFrom(values, StageAfterFailure(pc.n),
                       Append(toasts, FailureToast(pc.n)), uploadCalls, calls)
    /\ UNCHANGED <<groupid, values, groupInfo, redirecting>>

\* The fetch of ["group-info"] settles (220-223): with an answer, which is
\* the new data, or with an exception, which leaves the data; the hook
\* renders (393).
GroupInfoResolves(o) ==
    /\ infoFetching
    /\ infoFetching' = FALSE
    /\ groupInfo' = IF o = "throw" THEN groupInfo ELSE o
    /\ redirecting' = Redirects(groupInfo')
    /\ UNCHANGED <<groupid, values, pc, uploadCalls, calls, outcomes, toasts,
                   invalidated, failedStep>>

\* What an awaited call can give: upload.uploadFile a file with a uuid, a
\* result without one, or an exception; onUpDateGroupSettings a status, or an
\* exception (the network failing).
Outcome(threw, uuid, st) == [threw |-> threw, uuid |-> uuid, status |-> st]
UploadOutcomes ==
    {Outcome(FALSE, u, 0) : u \in Uuids \cup {""}} \cup {Outcome(TRUE, "", 0)}
UpdateOutcomes ==
    {Outcome(FALSE, "", st) : st \in {200, 400}} \cup {Outcome(TRUE, "", 0)}

NextSettings ==
    \/ \E v \in Values :
          Submit(v) /\ UNCHANGED notSettingsVars
    \/ \E o \in UploadOutcomes :
          UploadReturns(o) /\ UNCHANGED notSettingsVars
    \/ \E o \in UpdateOutcomes :
          UpdateReturns(o) /\ UNCHANGED notSettingsVars
    \/ \E o \in InfoStatuses \cup {"throw"} :
          GroupInfoResolves(o) /\ UNCHANGED notSettingsVars


----------------------------------------------------------------------------
(* useMediaGallery: the add mutation behind onUpdateGallery (635-673, 691) *)

VideoUrls == {"", "https://www.loom.com/embed/v"}

\* The form values: an optional video url and a list of image files, given
\* by its length; file i is values.image[i].
GalleryValues == [videourl : VideoUrls, image : 0..MaxImages]

\* upload.uploadFile(file i): a file whose uuid names it, nothing, or an
\* exception.
UploadedUuid(i) == "uuid-" \o ToString(i)
GalleryUploadResults == {"file", "none", "throw"}

\* onUpdateGroupGallery: a result with a status, no result, or an exception.
GalleryCommitResults == {"200", "400", "none", "throw"}

\* The loop (648-666) from counter c: the next upload, or the end of
\* mutationFn, which always is the success toast (669-671).
GalleryLoop(v, c, ts) ==
    IF c < v.image
       THEN /\ galleryUploads' = Append(galleryUploads, c)
            /\ galleryPc' = "upload"
            /\ galleryToasts' = ts
       ELSE /\ galleryPc' = "resolved"
            /\ galleryToasts' = Append(ts, SuccessToast("Group gallery updated"))
            /\ UNCHANGED galleryUploads

\* `break` (656, 662): out of the loop, to the success toast.
GalleryBreak(ts) ==
    /\ galleryPc' = "resolved"
    /\ galleryToasts' = Append(ts, SuccessToast("Group gallery updated"))
    /\ UNCHANGED galleryUploads

\* The entries of the gallery the MediaGallery component renders.
Media == {"m1", "m2"}

\* isPending as MediaGallery takes it from its own useMediaGallery (part_001
\* line 24): the state of that instance's add mutation (635), which the
\* component never starts; it neither takes mutate nor isRemoving.
MediaGalleryIsPending == FALSE

\* MediaGallery's prop groupUserid, the group's owner, and the users who
\* view the gallery.
GroupUserid == "u-owner"
Users == {"u-owner", "u-member"}

\* Whether an entry's remove button is rendered for viewer u: MediaGallery
\* renders AboutRemoveButton under userid === groupUserid (part_001 line
\* 79), and the button returns null under userid !== groupUserid
\* (about-remove-button 29-31).  First, a gallery and a button without the
\* tests.
RemoveButtonRenderedAlways(u) == TRUE

RemoveButtonRendered(u) == u = GroupUserid /\ ~(u # GroupUserid)

\* Whether the form that adds media is rendered for viewer u (part_001 line
\* 90).
AddFormRendered(u) == u = GroupUserid

\* disabled of the remove button of entry m (about-remove-button line 39,
\* with the prop of part_001 line 84).
RemoveButtonDisabled(m) == buttonPending[m] \/ MediaGalleryIsPending

\* The notification of removeGalleryItem's mutationFn for a result o
\* (679-687): nothing when the call threw.
RemoveToasts(ts, o) ==
    IF o = "throw" THEN ts
    ELSE IF o = "400" THEN Append(ts, ErrorToast("message"))
    ELSE Append(ts, SuccessToast("Media removed from gallery"))

InitGallery ==
    /\ userid \in Users
    /\ activeMedia = ""
    /\ buttonPending = [m \in Media |-> FALSE]
    /\ confirmOpen = {}
    /\ removing = <<>>
    /\ removeToasts = <<>>
    /\ nRemoves = 0
    /\ galleryValues = [videourl |-> "", image |-> 0]
    /\ videoResult = ""
    /\ galleryPc = "idle"
    /\ count = 0
    /\ galleryUploads = <<>>
    /\ galleryCommits = <<>>
    /\ gallery = <<>>
    /\ galleryToasts = <<>>

\* onUpdateGallery (691) with validated values v: mutate(v) starts mutationFn,
\* which runs to its first await (639 or 649) or to its end.
GallerySubmit(v) ==
    /\ galleryPc \in {"idle", "resolved", "rejected"}
    /\ galleryValues' = v
    /\ videoResult' = ""
    /\ count' = 0
    /\ gallery' = <<>>
    /\ IF v.videourl # ""
          THEN /\ galleryCommits' = <<v.videourl>>
               /\ galleryPc' = "video"
               /\ galleryUploads' = <<>>
               /\ galleryToasts' = <<>>
          ELSE /\ galleryCommits' = <<>>
               /\ IF 0 < v.image
                     THEN /\ galleryUploads' = <<0>>
                          /\ galleryPc' = "upload"
                          /\ galleryToasts' = <<>>
                     ELSE /\ galleryUploads' = <<>>
                          /\ galleryPc' = "resolved"
                          /\ galleryToasts' = <<SuccessToast("Group gallery updated")>>

\* The test of the video url's result (640): whether mutationFn returns with
\* the error notification; first, a test that never does.
VideoStopsNever(o) == FALSE

VideoStops(o) == o = "400"

\* The video url's onUpdateGroupGallery returns (639-645).
GalleryVideoReturns(o) ==
    /\ galleryPc = "video"
    /\ videoResult' = o
    /\ gallery' = IF o = "200" THEN Append(gallery, galleryValues.videourl) ELSE gallery
    /\ IF o = "throw"
          THEN /\ galleryPc' = "rejected"
               /\ UNCHANGED <<galleryUploads, galleryToasts>>
          ELSE IF VideoStops(o)
          THEN /\ galleryPc' = "resolved"
               /\ galleryToasts' = Append(galleryToasts, ErrorToast("message"))
               /\ UNCHANGED galleryUploads
          ELSE GalleryLoop(galleryValues, 0, galleryToasts)
    /\ UNCHANGED <<galleryValues, count, galleryCommits>>

\* upload.uploadFile(values.image[count]) returns (649-663).
GalleryUploadReturns(o) ==
    /\ galleryPc = "upload"
    /\ IF o = "throw"
          THEN /\ galleryPc' = "rejected"
               /\ UNCHANGED <<galleryCommits, galleryUploads, galleryToasts>>
          ELSE IF o = "file"
          THEN /\ galleryCommits' = Append(galleryCommits, UploadedUuid(count))
               /\ galleryPc' = "commit"
               /\ UNCHANGED <<galleryUploads, galleryToasts>>
          ELSE /\ GalleryBreak(Append(galleryToasts,
                                      ErrorToast("Looks like something went wrong!")))
               /\ UNCHANGED galleryCommits
    /\ UNCHANGED <<galleryValues, count, gallery, videoResult>>

\* onUpdateGroupGallery(groupid, uploaded.uuid) returns (651-657, 664-665).
GalleryCommitReturns(o) ==
    /\ galleryPc = "commit"
    /\ gallery' = IF o = "200" THEN Append(gallery, UploadedUuid(count)) ELSE gallery
    /\ IF o = "throw"
          THEN /\ galleryPc' = "rejected"
               /\ UNCHANGED <<count, galleryUploads, galleryToasts>>
          ELSE IF o = "200"
          THEN /\ count' = count + 1
               /\ GalleryLoop(galleryValues, count + 1, galleryToasts)
          ELSE /\ GalleryBreak(Append(galleryToasts, ErrorToast("message")))
               /\ UNCHANGED count
    /\ UNCHANGED <<galleryValues, galleryCommits, videoResult>>

\* A click on the enabled remove button of entry m: AboutRemoveButton's
\* handleRemove (about-remove-button 20-23) sets isPending and calls
\* onRemove, which is MediaGallery's handleRemove (part_001 25-49, 82): it
\* opens the confirmation toast and returns nothing.
RemoveButtonClick(m) ==
    /\ RemoveButtonRendered(userid)
    /\ ~RemoveButtonDisabled(m)
    /\ buttonPending' = [buttonPending EXCEPT ![m] = TRUE]
    /\ confirmOpen' = confirmOpen \cup {m}
    /\ UNCHANGED <<removing, removeToasts, nRemoves, userid, activeMedia>>

\* A click on the image of entry m (part_001 58-63): onActive is called with
\* it, for every viewer.
SelectMedia(m) ==
    /\ activeMedia # m
    /\ activeMedia' = m
    /\ UNCHANGED <<buttonPending, confirmOpen, removing, removeToasts, nRemoves,
                   userid>>

\* handleRemove resumes after `await onRemove()` (about-remove-button 24-26).
RemoveButtonFinally(m) ==
    /\ buttonPending[m]
    /\ buttonPending' = [buttonPending EXCEPT ![m] = FALSE]
    /\ UNCHANGED <<confirmOpen, removing, removeToasts, nRemoves, userid,
                   activeMedia>>

\* "Remove" in the confirmation toast of entry m (part_001 32-35):
\* removeGalleryItem(m) starts a remove mutation (676-678), toast.dismiss()
\* closes the toasts.
ConfirmRemove(m) ==
    /\ m \in confirmOpen
    /\ nRemoves < MaxRemoves
    /\ removing' = Append(removing, m)
    /\ nRemoves' = nRemoves + 1
    /\ confirmOpen' = {}
    /\ UNCHANGED <<buttonPending, removeToasts, userid, activeMedia>>

\* "Cancel" in a confirmation toast (part_001 line 41).
CancelRemove ==
    /\ confirmOpen # {}
    /\ confirmOpen' = {}
    /\ UNCHANGED <<buttonPending, removing, removeToasts, nRemoves, userid,
                   activeMedia>>

\* onRemoveGroupGallery of the i-th remove mutation in flight returns o
\* (678-687).
RemoveReturns(i, o) ==
    /\ i \in 1..Len(removing)
    /\ removing' = [j \in 1..(Len(removing) - 1) |->
                        IF j < i THEN removing[j] ELSE removing[j + 1]]
    /\ removeToasts' = RemoveToasts(removeToasts, o)
    /\ UNCHANGED <<buttonPending, confirmOpen, nRemoves, userid, activeMedia>>

NextGallery ==
    \/ \E v \in GalleryValues :
          AddFormRendered(userid) /\ GallerySubmit(v)
             /\ UNCHANGED <<removeVars, notGalleryVars>>
    \/ \E o \in GalleryCommitResults :
          GalleryVideoReturns(o) /\ UNCHANGED <<removeVars, notGalleryVars>>
    \/ \E o \in GalleryUploadResults :
          GalleryUploadReturns(o) /\ UNCHANGED <<removeVars, notGalleryVars>>
    \/ \E o \in GalleryCommitResults :
          GalleryCommitReturns(o) /\ UNCHANGED <<removeVars, notGalleryVars>>
    \/ \E m \in Media :
          RemoveButtonClick(m) /\ UNCHANGED <<addVars, notGalleryVars>>
    \/ \E m \in Media :
          SelectMedia(m) /\ UNCHANGED <<addVars, notGalleryVars>>
    \/ \E m \in Media :
          RemoveButtonFinally(m) /\ UNCHANGED <<addVars, notGalleryVars>>
    \/ \E m \in Media :
          ConfirmRemove(m) /\ UNCHANGED <<addVars, notGalleryVars>>
    \/ CancelRemove /\ UNCHANGED <<addVars, notGalleryVars>>
    \/ \E i \in 1..MaxRemoves, o \in GalleryCommitResults :
          RemoveReturns(i, o) /\ UNCHANGED <<addVars, notGalleryVars>>


----------------------------------------------------------------------------
(* useCustomDomain (795-837) *)

Domains == {"a.com", "b.com"}
NoDomain == "none"

\* onAddCustomDomain: a result with a status, or an exception.
AddResults == {"200", "400", "throw"}

\* Whether a settled add mutation invalidates ["domain-config"]: onSettled
\* runs after success and after error alike (821-825).  First, the
\* invalidation placed in onSuccess.
InvalidatesOnSuccessOnly(o) == o # "throw"

InvalidatesOnSettled(o) == TRUE

\* The notification of a settled add mutation: onSuccess (816-820) runs when
\* onAddCustomDomain returned, with the title its status selects.
DomainToasts(ts, o) ==
    IF o = "throw" THEN ts
    ELSE Append(ts, IF o = "200" THEN "Success" ELSE "Error")

\* What a settled add mutation with result o does, in order: onSuccess
\* (816-820) before onSettled (821-825).  First, the two the other way round.
SettleEventsInvalidateFirst(o) ==
    (IF InvalidatesOnSettled(o) THEN <<"invalidate">> ELSE <<>>) \o DomainToasts(<<>>, o)

SettleEvents(o) ==
    DomainToasts(<<>>, o) \o (IF InvalidatesOnSettled(o) THEN <<"invalidate">> ELSE <<>>)

\* State after mount: useQuery has started the first fetch.
InitDomain ==
    /\ domainEvents = <<>>
    /\ serverDomain = NoDomain
    /\ domainData = "undefined"
    /\ domainFetching = TRUE
    /\ domainFetched = {}
    /\ domainPending = <<>>
    /\ domainOutcomes = <<>>
    /\ domainInvalidations = 0
    /\ domainRefetches = 0
    /\ domainToasts = <<>>
    /\ domainAdds = 0

\* onAddDomain (828): mutate(values) starts onAddCustomDomain(groupid, domain)
\* (813-814); onMutate resets the form (815).
OnAddDomain(d) ==
    /\ domainAdds < MaxAdds
    /\ domainAdds' = domainAdds + 1
    /\ domainPending' = Append(domainPending, d)
    /\ UNCHANGED <<serverDomain, domainData, domainFetching, domainFetched,
                   domainOutcomes, domainInvalidations, domainRefetches,
                   domainToasts, domainEvents>>

\* The i-th add mutation in flight settles with result o: onSuccess (816-820)
\* when it returned, then onSettled (821-825).  The invalidation refetches the
\* mounted query, cancelling a fetch in flight.
AddSettles(i, o) ==
    /\ i \in 1..Len(domainPending)
    /\ serverDomain' = IF o = "200" THEN domainPending[i] ELSE serverDomain
    /\ domainPending' = [j \in 1..(Len(domainPending) - 1) |->
                            IF j < i THEN domainPending[j] ELSE domainPending[j + 1]]
    /\ domainOutcomes' = Append(domainOutcomes, o)
    /\ domainToasts' = DomainToasts(domainToasts, o)
    /\ domainEvents' = domainEvents \o SettleEvents(o)
    /\ IF InvalidatesOnSettled(o)
          THEN /\ domainInvalidations' = domainInvalidations + 1
               /\ domainRefetches' = domainRefetches + 1
               /\ domainFetching' = TRUE
          ELSE UNCHANGED <<domainInvalidations, domainRefetches, domainFetching>>
    /\ UNCHANGED <<domainData, domainFetched, domainAdds>>

\* onGetDomainConfig(groupid) returns (809): the query's data becomes what
\* the server holds.
DomainFetchResolves ==
    /\ domainFetching
    /\ domainFetching' = FALSE
    /\ domainData' = serverDomain
    /\ domainFetched' = domainFetched \cup {serverDomain}
    /\ UNCHANGED <<serverDomain, domainPending, domainOutcomes,
                   domainInvalidations, domainRefetches, domainToasts, domainAdds,
                   domainEvents>>

NextDomain ==
    \/ \E d \in Domains :
          OnAddDomain(d) /\ UNCHANGED notDomainVars
    \/ \E i \in 1..MaxAdds, o \in AddResults :
          AddSettles(i, o) /\ UNCHANGED notDomainVars
    \/ DomainFetchResolves /\ UNCHANGED notDomainVars


----------------------------------------------------------------------------
(* useGroupChatOnline (70-102): N clients, each mounting the hook once, and
   the "tracking" presence channel of the realtime server between them *)

Clients == 1..MaxClients

\* The userid each client's hook is given (line 70); the clients are
\* distinct users.
UserId(c) == "user-" \o ToString(c)

\* The store's reducer for onOnline: the dispatched members are merged into
\* the online-members state, a member already there staying once.
OnOnline(members, payload) == members \cup payload

\* The sync listener (77-87): one dispatch(onOnline(...)) per key of the
\* presence state ps, carrying the userid of the key's first payload; given
\* the store's members, the members after the loop.  First, the loop ending
\* after its first key.
SyncFirstKeyOnly(members, ps) ==
    IF ps = {} THEN members
    ELSE OnOnline(members, {UserId(CHOOSE k \in ps : \A j \in ps : k <= j)})

RECURSIVE Sync(_, _)
Sync(members, ps) ==
    IF ps = {} THEN members
    ELSE LET k == CHOOSE x \in ps : \A j \in ps : x <= j
         IN  Sync(OnOnline(members, {UserId(k)}), ps \ {k})

\* The subscribe callback's test (line 89) of the status it is called with:
\* whether it publishes the identity payload; first, a callback that
\* publishes whatever the status.
TrackOnAnyStatus(st) == TRUE

TrackOn(st) == st = "SUBSCRIBED"

\* Channel messages to a client.
Ack == [type |-> "SUBSCRIBED", joins |-> {}, leaves |-> {}]
ChannelError == [type |-> "CHANNEL_ERROR", joins |-> {}, leaves |-> {}]
PresenceMsg(joins, leaves) == [type |-> "presence", joins |-> joins, leaves |-> leaves]

\* The clients whose channel the server sends presence messages to, and the
\* keys the server holds.
Subscribers == {c \in Clients : serverSide[c] \in {"joined", "tracked"}}
ServerPresence == {c \in Clients : serverSide[c] = "tracked"}

InitPresence ==
    /\ status = [c \in Clients |-> "DISCONNECTED"]
    /\ tracked = [c \in Clients |-> FALSE]
    /\ serverSide = [c \in Clients |-> "none"]
    /\ inbox = [c \in Clients |-> <<>>]
    /\ presenceState = [c \in Clients |-> {}]
    /\ online = [c \in Clients |-> {}]
    /\ rejected = [c \in Clients |-> FALSE]
    /\ channels = [c \in Clients |-> 0]
    /\ unsubscribes = [c \in Clients |-> 0]

\* The effect on mount (73-96): the channel is created, the sync listener
\* registered, the subscription requested.
Mount(c) ==
    /\ status[c] = "DISCONNECTED"
    /\ status' = [status EXCEPT ![c] = "JOINING"]
    /\ channels' = [channels EXCEPT ![c] = @ + 1]
    /\ UNCHANGED <<tracked, serverSide, inbox, presenceState, online, rejected,
                   unsubscribes>>

\* The server fails a client's first subscription attempt: the subscribe
\* callback will be called with CHANNEL_ERROR, and the channel asks again.
ServerReject(c) ==
    /\ status[c] = "JOINING"
    /\ serverSide[c] = "none"
    /\ ~rejected[c]
    /\ inbox[c] = <<>>
    /\ inbox' = [inbox EXCEPT ![c] = <<ChannelError>>]
    /\ UNCHANGED <<status, tracked, serverSide, presenceState, online, rejected,
                   channels, unsubscribes>>

\* The server takes a client's subscription: it confirms it and sends the
\* current presence state.
ServerJoin(c) ==
    /\ status[c] \in {"JOINING", "CLOSED"}
    /\ serverSide[c] = "none"
    /\ serverSide' = [serverSide EXCEPT ![c] = "joined"]
    /\ inbox' = IF status[c] = "CLOSED" THEN inbox
                ELSE [inbox EXCEPT ![c] = @ \o <<Ack, PresenceMsg(ServerPresence, {})>>]
    /\ UNCHANGED <<status, tracked, presenceState, online, rejected, channels,
                   unsubscribes>>

\* A client receives its next channel message.  The answer to the
\* subscription runs the subscribe callback (88-96) with its status, which
\* tracks the user when TrackOn; a presence message updates the channel's
\* presence state and fires the sync listener (77-87).
Receive(c) ==
    /\ status[c] \in {"JOINING", "SUBSCRIBED"}
    /\ inbox[c] # <<>>
    /\ inbox' = [inbox EXCEPT ![c] = Tail(inbox[c])]
    /\ LET m == Head(inbox[c]) IN
       IF m.type \in {"SUBSCRIBED", "CHANNEL_ERROR"}
          THEN /\ status' = [status EXCEPT ![c] =
                                 IF m.type = "SUBSCRIBED" THEN "SUBSCRIBED" ELSE @]
               /\ tracked' = [tracked EXCEPT ![c] = @ \/ TrackOn(m.type)]
               /\ rejected' = [rejected EXCEPT ![c] = (m.type = "CHANNEL_ERROR")]
               /\ UNCHANGED <<presenceState, online>>
          ELSE /\ presenceState' =
                     [presenceState EXCEPT ![c] = (presenceState[c] \cup m.joins) \ m.leaves]
               /\ online' = [online EXCEPT ![c] =
                     Sync(online[c], (presenceState[c] \cup m.joins) \ m.leaves)]
               /\ UNCHANGED <<status, tracked, rejected>>
    /\ UNCHANGED <<serverSide, channels, unsubscribes>>

\* The server takes a client's track: the client's key joins the presence
\* state, and every subscriber is told.
ServerTrack(c) ==
    /\ tracked[c]
    /\ serverSide[c] = "joined"
    /\ serverSide' = [serverSide EXCEPT ![c] = "tracked"]
    /\ inbox' = [s \in Clients |->
                    IF s \in Subscribers /\ status[s] # "CLOSED"
                       THEN Append(inbox[s], PresenceMsg({c}, {}))
                       ELSE inbox[s]]
    /\ UNCHANGED <<status, tracked, presenceState, online, rejected, channels,
                   unsubscribes>>

\* The effect's cleanup on unmount (98-100): channel.unsubscribe().  The
\* channel receives nothing more; the store keeps its state.
Unmount(c) ==
    /\ status[c] \in {"JOINING", "SUBSCRIBED"}
    /\ status' = [status EXCEPT ![c] = "CLOSED"]
    /\ inbox' = [inbox EXCEPT ![c] = <<>>]
    /\ unsubscribes' = [unsubscribes EXCEPT ![c] = @ + 1]
    /\ rejected' = [rejected EXCEPT ![c] = FALSE]
    /\ UNCHANGED <<tracked, serverSide, presenceState, online, channels>>

\* The server takes a client's unsubscription (after what the client sent
\* before it): the client's key leaves, and every subscriber is told.
ServerLeave(c) ==
    /\ status[c] = "CLOSED"
    /\ serverSide[c] \in {"joined", "tracked"}
    /\ ~(tracked[c] /\ serverSide[c] = "joined")
    /\ serverSide' = [serverSide EXCEPT ![c] = "gone"]
    /\ inbox' = [s \in Clients |->
                    IF s \in Subscribers \ {c} /\ status[s] # "CLOSED"
                          /\ serverSide[c] = "tracked"
                       THEN Append(inbox[s], PresenceMsg({}, {c}))
                       ELSE inbox[s]]
    /\ UNCHANGED <<status, tracked, presenceState, online, rejected, channels,
                   unsubscribes>>

NextPresence ==
    \/ \E c \in Clients :
          Mount(c) /\ UNCHANGED notPresenceVars
    \/ \E c \in Clients :
          ServerReject(c) /\ UNCHANGED notPresenceVars
    \/ \E c \in Clients :
          ServerJoin(c) /\ UNCHANGED notPresenceVars
    \/ \E c \in Clients :
          Receive(c) /\ UNCHANGED notPresenceVars
    \/ \E c \in Clients :
          ServerTrack(c) /\ UNCHANGED notPresenceVars
    \/ \E c \in Clients :
          Unmount(c) /\ UNCHANGED notPresenceVars
    \/ \E c \in Clients :
          ServerLeave(c) /\ UNCHANGED notPresenceVars


----------------------------------------------------------------------------
(* useChatWindow (715-769): one mounted chat window, the Message table and
   its change feed *)

\* The store's reducer for onChat, which the hook dispatches both with the
\* fetched history (766) and with a change event's rows (742-754): a
\* fetched history replaces the chat state, a delivered row is appended to it.
ChatAfterHistory(state, fetched) == fetched
ChatAfterChange(state, rows) == state \o rows

\* The render body (766): with the history fetched, every render dispatches
\* onChat with it.
RenderDispatch(state, fetched, data) ==
    IF fetched THEN ChatAfterHistory(state, data) ELSE state

\* What a change event's payload.new is at run time: the list of rows the
\* handler's cast takes it for (745-751), or the single row object of the
\* changed row.
PayloadShapes == {"rows", "row"}

\* [...payload.new] (744-752): the rows of a list; a single row object is not
\* iterable, and its spread throws before the dispatch or yields no element.
Spread(ev) == IF ev.shape = "rows" THEN ev.new ELSE <<>>

\* The change handler (741-755): onChat with the spread of payload.new.
ChangeDispatch(state, ev) == ChatAfterChange(state, Spread(ev))

\* The handler runs once for every live subscription: n dispatches of the
\* event's rows.
RECURSIVE DispatchTimes(_, _, _)
DispatchTimes(state, ev, n) ==
    IF n = 0 THEN state ELSE DispatchTimes(ChangeDispatch(state, ev), ev, n - 1)

\* The live subscriptions after an unmount: the effect of 731-758 returns no
\* cleanup (its last statement is .subscribe(), 757), so none is closed.
\* The effect of 98-100 returns the unsubscribe; this one does not.
SubscriptionsAfterUnmount(n) == n

\* State after mount: the history fetch is in flight, the subscription open,
\* the table holding the messages sent before.
InitChat ==
    /\ chatMounted = TRUE
    /\ subscriptions = 1
    /\ chatMounts = 1
    /\ deliveredUnmounted = <<>>
    /\ messages \in {[i \in 1..k |-> i] : k \in 0..1}
    /\ isFetched = FALSE
    /\ chatData = <<>>
    /\ changes = <<>>
    /\ chat = <<>>
    /\ deliveredEarly = <<>>
    /\ deliveredLive = <<>>

\* A message is inserted into the table; the change feed carries the row to
\* the subscription (732-757).
InsertMessage(shape) ==
    /\ Len(messages) < MaxMessages
    /\ messages' = Append(messages, Len(messages) + 1)
    /\ changes' = Append(changes, [shape |-> shape, new |-> <<Len(messages) + 1>>])
    /\ UNCHANGED <<isFetched, chatData, chat, deliveredEarly, deliveredLive,
                   chatMounted, subscriptions, chatMounts, deliveredUnmounted>>

\* onGetAllUserMessages(recieverid) returns what the table holds (716-719);
\* the hook renders with it (766).
HistoryResolves ==
    /\ ~isFetched
    /\ isFetched' = TRUE
    /\ chatData' = messages
    /\ chat' = IF chatMounted THEN RenderDispatch(chat, TRUE, messages) ELSE chat
    /\ UNCHANGED <<messages, changes, deliveredEarly, deliveredLive,
                   chatMounted, subscriptions, chatMounts, deliveredUnmounted>>

\* The subscription delivers its next change event to the handler (741-755).
ChangeDelivered ==
    /\ changes # <<>>
    /\ changes' = Tail(changes)
    /\ chat' = DispatchTimes(chat, Head(changes), subscriptions)
    /\ deliveredUnmounted' =
          IF ~chatMounted /\ subscriptions > 0
             THEN deliveredUnmounted \o Head(changes).new
             ELSE deliveredUnmounted
    /\ IF isFetched
          THEN /\ deliveredLive' = deliveredLive \o Head(changes).new
               /\ UNCHANGED deliveredEarly
          ELSE /\ deliveredEarly' = deliveredEarly \o Head(changes).new
               /\ UNCHANGED deliveredLive
    /\ UNCHANGED <<messages, isFetched, chatData, chatMounted, subscriptions,
                   chatMounts>>

\* The component renders again (its state, its parent or the store changed):
\* the hook's body runs (715-768).
Render ==
    /\ chatMounted
    /\ chat' = RenderDispatch(chat, isFetched, chatData)
    /\ UNCHANGED <<messages, isFetched, chatData, changes, deliveredEarly,
                   deliveredLive, chatMounted, subscriptions, chatMounts,
                   deliveredUnmounted>>

\* The component using the hook unmounts: React runs the cleanups the
\* effects returned.  The query's cache and the store outlive the component.
ChatUnmount ==
    /\ chatMounted
    /\ chatMounted' = FALSE
    /\ subscriptions' = SubscriptionsAfterUnmount(subscriptions)
    /\ UNCHANGED <<messages, isFetched, chatData, changes, chat, deliveredEarly,
                   deliveredLive, chatMounts, deliveredUnmounted>>

\* The component mounts again: the effect runs (731-758) and subscribes its
\* handler to "table-db-changes"; the body renders with what the query's
\* cache holds (766).
ChatMount ==
    /\ ~chatMounted
    /\ chatMounts < MaxMounts
    /\ chatMounted' = TRUE
    /\ chatMounts' = chatMounts + 1
    /\ subscriptions' = subscriptions + 1
    /\ chat' = RenderDispatch(chat, isFetched, chatData)
    /\ UNCHANGED <<messages, isFetched, chatData, changes, deliveredEarly,
                   deliveredLive, deliveredUnmounted>>

NextChat ==
    \/ \E shape \in PayloadShapes :
          InsertMessage(shape) /\ UNCHANGED notChatVars
    \/ HistoryResolves /\ UNCHANGED notChatVars
    \/ ChangeDelivered /\ UNCHANGED notChatVars
    \/ Render /\ UNCHANGED notChatVars
    \/ ChatUnmount /\ UNCHANGED notChatVars
    \/ ChatMount /\ UNCHANGED notChatVars

----------------------------------------------------------------------------
(* The description editors: onSetDescriptions and its effect in
   useGroupSettings (267-278) and in useGroupAbout (518-530) *)

Editors == {"settings", "about"}

\* A structured document (JSONContent) is a list of paragraphs; the state
\* holds a document or undefined.  The plain and html descriptions are
\* strings, "" standing for undefined.
NoDoc == [defined |-> FALSE, content |-> <<>>]
Docs == {NoDoc, [defined |-> TRUE, content |-> <<>>],
         [defined |-> TRUE, content |-> <<"x">>]}
PlainTexts == {"", "d", "e"}
HtmlTexts == {"", "<p>d</p>"}

\* JSON.stringify of the document state (268, 519): of undefined, undefined
\* (here ""), else the document's JSON text.
RECURSIVE JoinQuoted(_)
JoinQuoted(ps) ==
    IF ps = <<>> THEN ""
    ELSE "\"" \o Head(ps) \o "\"" \o
         (IF Len(ps) > 1 THEN "," ELSE "") \o JoinQuoted(Tail(ps))

Stringify(doc) ==
    IF ~doc.defined THEN ""
    ELSE "{\"type\":\"doc\",\"content\":[" \o JoinQuoted(doc.content) \o "]}"

\* onSetDescriptions (267-271, 518-523) as called from a render whose state
\* values are cl, on the form fields ff: useGroupAbout sets htmldescription
\* too.
OnSetDescriptions(h, ff, cl) ==
    [jsondescription |-> Stringify(cl.json),
     description |-> cl.description,
     htmldescription |-> IF h = "about" THEN cl.html ELSE ff.htmldescription]

\* Whether the effect (273-278, 525-530) runs after a render with document
\* j and description t, cl being the values it ran with last: its
\* dependencies are [onJsonDescription, onDescription].  First, a dependency
\* list without onDescription.
EffectRunsOnJsonOnly(cl, j, t) == cl.json # j

EffectRuns(cl, j, t) == cl.json # j \/ cl.description # t

\* A render of hook h with state j, t, html, and its effect: the cleanup of
\* the last run calls onSetDescriptions with that run's values, then the
\* effect calls it with the render's.
EditorRender(h, j, t, html) ==
    LET new == [json |-> j, description |-> t, html |-> html] IN
    IF EffectRuns(effectClosure[h], j, t)
       THEN /\ formFields' = [formFields EXCEPT ![h] =
                   OnSetDescriptions(h, OnSetDescriptions(h, @, effectClosure[h]), new)]
            /\ effectClosure' = [effectClosure EXCEPT ![h] = new]
       ELSE UNCHANGED <<formFields, effectClosure>>

\* State after mount of both hooks, for a group without descriptions: the
\* effect has run once.
InitEditors ==
    /\ editorMounted = [h \in Editors |-> TRUE]
    /\ onJsonDescription = [h \in Editors |-> NoDoc]
    /\ onDescription = [h \in Editors |-> ""]
    /\ onHtmlDescription = ""
    /\ effectClosure = [h \in Editors |->
                           [json |-> NoDoc, description |-> "", html |-> ""]]
    /\ formFields = [h \in Editors |->
          OnSetDescriptions(h, [jsondescription |-> "", description |-> "",
                                htmldescription |-> ""],
                            [json |-> NoDoc, description |-> "", html |-> ""])]
    /\ sentValues = [h \in Editors |-> <<>>]
    /\ nEdits = 0

\* The editor calls setJsonDescription(d) of hook h (230, 496).
SetJsonDescription(h, d) ==
    /\ editorMounted[h]
    /\ nEdits < MaxEdits
    /\ d # onJsonDescription[h]
    /\ onJsonDescription' = [onJsonDescription EXCEPT ![h] = d]
    /\ nEdits' = nEdits + 1
    /\ EditorRender(h, d, onDescription[h], onHtmlDescription)
    /\ UNCHANGED <<editorMounted, onDescription, onHtmlDescription, sentValues>>

\* The editor calls setOnDescription(t) of hook h (234, 500).
SetOnDescription(h, t) ==
    /\ editorMounted[h]
    /\ nEdits < MaxEdits
    /\ t # onDescription[h]
    /\ onDescription' = [onDescription EXCEPT ![h] = t]
    /\ nEdits' = nEdits + 1
    /\ EditorRender(h, onJsonDescription[h], t, onHtmlDescription)
    /\ UNCHANGED <<editorMounted, onJsonDescription, onHtmlDescription, sentValues>>

\* The editor calls useGroupAbout's setOnHtmlDescription(t) (504).
SetOnHtmlDescription(t) ==
    /\ editorMounted["about"]
    /\ nEdits < MaxEdits
    /\ t # onHtmlDescription
    /\ onHtmlDescription' = t
    /\ nEdits' = nEdits + 1
    /\ EditorRender("about", onJsonDescription["about"], onDescription["about"], t)
    /\ UNCHANGED <<editorMounted, onJsonDescription, onDescription, sentValues>>

\* handleSubmit hands the form's values to the mutation (392, 606-608): the
\* description fields among them.
EditorSubmit(h) ==
    /\ editorMounted[h]
    /\ sentValues[h] # <<formFields[h]>>
    /\ sentValues' = [sentValues EXCEPT ![h] = <<formFields[h]>>]
    /\ UNCHANGED <<editorMounted, onJsonDescription, onDescription,
                   onHtmlDescription, formFields, effectClosure, nEdits>>

\* The component unmounts: the effect's cleanup (275-277, 527-529) calls
\* onSetDescriptions a last time.
EditorUnmount(h) ==
    /\ editorMounted[h]
    /\ editorMounted' = [editorMounted EXCEPT ![h] = FALSE]
    /\ formFields' = [formFields EXCEPT ![h] =
                         OnSetDescriptions(h, @, effectClosure[h])]
    /\ UNCHANGED <<onJsonDescription, onDescription, onHtmlDescription,
                   effectClosure, sentValues, nEdits>>

NextEditors ==
    \/ \E h \in Editors, d \in Docs :
          SetJsonDescription(h, d) /\ UNCHANGED notEditorVars
    \/ \E h \in Editors, t \in PlainTexts :
          SetOnDescription(h, t) /\ UNCHANGED notEditorVars
    \/ \E t \in HtmlTexts :
          SetOnHtmlDescription(t) /\ UNCHANGED notEditorVars
    \/ \E h \in Editors :
          EditorSubmit(h) /\ UNCHANGED notEditorVars
    \/ \E h \in Editors :
          EditorUnmount(h) /\ UNCHANGED notEditorVars

----------------------------------------------------------------------------
(* The middleware (unnamed/part_002) *)

\* A request's path, as the list of its pieces: "/", names, ".".
RequestPaths ==
    { <<"/">>,
      <<"/", "sign-in">>,
      <<"/", "sign-in", "/", "sso-callback">>,
      <<"/", "sign-up">>,
      <<"/", "group", "/", "g1">>,
      <<"/", "api", "/", "webhook">>,
      <<"/", "api", "/", "file", ".", "json">>,
      <<"/", "_next", "/", "static">>,
      <<"/", "logo", ".", "png">> }

\* Whether path p starts with the pieces of prefix.
StartsWith(p, prefix) ==
    /\ Len(p) >= Len(prefix)
    /\ SubSeq(p, 1, Len(prefix)) = prefix

HasDot(p) == \E i \in 1..Len(p) : p[i] = "."

\* isPublicRoute (3): createRouteMatcher(["/sign-in(.*)", "/sign-up(.*)"]).
IsPublicRoute(p) ==
    \/ StartsWith(p, <<"/", "sign-in">>)
    \/ StartsWith(p, <<"/", "sign-up">>)

\* config.matcher (11-13): the paths the middleware runs for: those without
\* a dot that do not start with _next, the root, and those under api or trpc.
Matcher(p) ==
    \/ /\ StartsWith(p, <<"/">>)
       /\ ~HasDot(Tail(p))
       /\ ~StartsWith(Tail(p), <<"_next">>)
    \/ p = <<"/">>
    \/ StartsWith(p, <<"/", "api">>)
    \/ StartsWith(p, <<"/", "trpc">>)

\* The middleware's body (5-9): auth().protect() is called when
\* isPublicRoute(req).
Protects(p) == IsPublicRoute(p)

InitMiddleware == requests = <<>>

\* A request for path p is served: where the matcher selects it the
\* middleware runs before the route.
Request(p) ==
    /\ Len(requests) < MaxRequests
    /\ requests' = Append(requests, [path |-> p, ran |-> Matcher(p),
                                     protect |-> Matcher(p) /\ Protects(p)])

NextMiddleware ==
    \E p \in RequestPaths : Request(p) /\ UNCHANGED notMiddlewareVars

----------------------------------------------------------------------------
(* Menu of the group navbar (group-navbar/index.tsx 13-72) *)

Orientations == {"desktop", "mobile"}

\* The path of every item of SAMAWA_CONSTANTS.groupPageMenu.
GroupPageMenuPaths == {"/", "/courses", "/events"}

\* dynamicPath of the desktop links (21-23) and of the mobile links (49-51):
\* both branches of each conditional give the same path.
DesktopPath(groupId, path) ==
    IF path = "/courses" THEN "/group/" \o groupId \o path
                         ELSE "/group/" \o groupId \o path

MobilePath(groupId, path) ==
    IF path = "/courses" THEN "/groups/" \o groupId \o path
                         ELSE "/groups/" \o groupId \o path

\* href of the link of an item in a Menu of the given orientation (17, 27, 46,
\* 55).
DynamicPath(orientation, groupId, path) ==
    IF orientation = "desktop" THEN DesktopPath(groupId, path)
                               ELSE MobilePath(groupId, path)

\* useNavigation's onSetSection: the active section becomes the page given.
OnSetSection(state, page) == page

InitMenu ==
    /\ section = "/"
    /\ location = ""
    /\ clicks = <<>>

\* A click on the link of the item with the given path, in a Menu rendered
\* with the given orientation and groupId: onClick runs (28, 56) and the Link
\* navigates to its href (27, 55).
MenuClick(orientation, groupId, path) ==
    /\ Len(clicks) < MaxClicks
    /\ section' = OnSetSection(section, path)
    /\ location' = DynamicPath(orientation, groupId, path)
    /\ clicks' = Append(clicks, [orientation |-> orientation, groupId |-> groupId,
                                 path |-> path,
                                 href |-> DynamicPath(orientation, groupId, path)])

NextMenu ==
    \E orientation \in Orientations, groupId \in GroupIds,
       path \in GroupPageMenuPaths :
          MenuClick(orientation, groupId, path) /\ UNCHANGED notMenuVars

----------------------------------------------------------------------------
Init ==
    /\ InitSearch /\ InitSettings /\ InitGallery /\ InitDomain /\ InitPresence
    /\ InitChat /\ InitEditors /\ InitMiddleware /\ InitMenu

\* A hook's specification starts the other hooks from one fixed state: the
\* group useGroupSettings is given, and the Message table empty.
InitOneHook ==
    Init /\ groupid = "g1" /\ groupInfo = "undefined" /\ messages = <<>>
         /\ userid = GroupUserid
InitSettingsOnly == Init /\ messages = <<>> /\ userid = GroupUserid
InitGalleryOnly ==
    Init /\ groupid = "g1" /\ groupInfo = "undefined" /\ messages = <<>>
InitChatOnly ==
    Init /\ groupid = "g1" /\ groupInfo = "undefined" /\ userid = GroupUserid

SpecSearch == InitOneHook /\ [][NextSearch]_vars

SpecSettings == InitSettingsOnly /\ [][NextSettings]_vars

SpecGallery == InitGalleryOnly /\ [][NextGallery]_vars

SpecDomain == InitOneHook /\ [][NextDomain]_vars

\* The channel delivers: what a client or the server has been sent, it
\* eventually takes.  Mounting and unmounting are the user's and stay free.
PresenceFairness ==
    \A c \in Clients :
        /\ WF_vars(ServerJoin(c) /\ UNCHANGED notPresenceVars)
        /\ WF_vars(Receive(c) /\ UNCHANGED notPresenceVars)
        /\ WF_vars(ServerTrack(c) /\ UNCHANGED notPresenceVars)

SpecPresence ==
    InitOneHook /\ [][NextPresence]_vars /\ PresenceFairness

SpecChat == InitChatOnly /\ [][NextChat]_vars

SpecEditors == InitOneHook /\ [][NextEditors]_vars

SpecMiddleware == InitOneHook /\ [][NextMiddleware]_vars

SpecMenu == InitOneHook /\ [][NextMenu]_vars

----------------------------------------------------------------------------
(* C1 (as stated): any burst of query changes, each less than Delay ms after
   the previous one, is followed by exactly one refetch, issued with the last
   value. *)
C1_Original ==
    (searchMounted /\ delayInputTimeoutId = <<>> /\ burstLen >= 1 /\ burstFast)
        => burstFetches = <<query>>

(* C1 (amended): during a burst of query changes no refetch is issued; after
   the burst's surviving timer has run, at most one refetch has been issued,
   with the last value, and exactly one when that value is non-empty and
   differs from the debounced value held before the burst (otherwise none). *)
C1_Debounce ==
    /\ (delayInputTimeoutId # <<>> /\ burstLen >= 1) => burstFetches = <<>>
    /\ (searchMounted /\ delayInputTimeoutId = <<>> /\ burstLen >= 1)
          => burstFetches = IF query # "" /\ query # debBefore
                              THEN <<query>> ELSE <<>>

C1_Witness ==
    /\ delayInputTimeoutId = <<>>
    /\ burstLen >= 3
    /\ burstFast
    /\ burstFetches = <<query>>
    /\ debBefore # ""

----------------------------------------------------------------------------
(* Claims about useGroupSettings *)

RunEnded == pc.at \in {"resolved", "rejected"}

\* The tags of the steps whose guard holds for v, in program order, as the
\* claims state them.
ClaimTags == <<"IMAGE", "ICON", "NAME", "DESCRIPTION", "JSONDESCRIPTION">>
FieldSet(v, n) ==
    CASE n = 1 -> v.thumbnail > 0
      [] n = 2 -> v.icon > 0
      [] n = 3 -> v.name # ""
      [] n = 4 -> v.description # ""
      [] n = 5 -> v.jsondescription # ""
StepsSet(v) == SelectSeq(<<1, 2, 3, 4, 5>>, LAMBDA n : FieldSet(v, n))
TagsSet(v) == [i \in 1..Len(StepsSet(v)) |-> ClaimTags[StepsSet(v)[i]]]
TagsOf(cs) == [i \in 1..Len(cs) |-> cs[i].tag]
IsPrefix(s, t) == Len(s) <= Len(t) /\ \A i \in 1..Len(s) : s[i] = t[i]
Succeeded(o) == ~o.threw /\ (o.uuid # "" \/ o.status = 200)
SuccessReported == [title |-> "Success", description |-> "Group data updated"]
EmptyReported ==
    [title |-> "Error", description |-> "Oops! looks like your form is empty"]

(* C2: a submit with only `name` non-empty issues exactly one
   onUpDateGroupSettings call, tagged NAME, carrying the name and the path
   /group/{groupid}/settings, and no upload; when the call returns status 200
   the run ends with the success notification alone. *)
C2_NameOnly ==
    (pc.at # "idle" /\ StepsSet(values) = <<3>>)
        => /\ calls = <<[tag |-> "NAME", value |-> values.name,
                         path |-> <<"/group/", groupid, "/settings">>]>>
           /\ uploadCalls = <<>>
           /\ (RunEnded /\ outcomes = <<Outcome(FALSE, "", 200)>>)
                 => (pc.at = "resolved" /\ toasts = <<SuccessReported>>)

C2_Witness ==
    /\ StepsSet(values) = <<3>>
    /\ values.name = "Alpha"
    /\ pc.at = "resolved"
    /\ outcomes = <<Outcome(FALSE, "", 200)>>
    /\ toasts = <<SuccessReported>>

(* C3: a submit with every field empty makes no upload call and no
   onUpDateGroupSettings call, and emits exactly one notification, the
   "empty form" error (so no success notification). *)
C3_EmptyForm ==
    (pc.at # "idle" /\ StepsSet(values) = <<>>)
        => /\ pc.at = "resolved"
           /\ uploadCalls = <<>>
           /\ calls = <<>>
           /\ outcomes = <<>>
           /\ toasts = <<EmptyReported>>

C3_Witness ==
    /\ pc.at = "resolved"
    /\ StepsSet(values) = <<>>
    /\ toasts = <<EmptyReported>>
    /\ calls = <<>>

(* C4 (as stated): every finished run has issued exactly one update call per
   present field and none for an absent one, in the fixed order, one at a
   time. *)
C4_Original ==
    /\ Len(uploadCalls) + Len(calls) - Len(outcomes) \in {0, 1}
    /\ RunEnded => TagsOf(calls) = TagsSet(values)

(* C4 (amended): a run issues at most one update call per present field and
   none for an absent one, in the fixed order thumbnail, icon, name,
   description, jsondescription, each call starting only after the previous
   one has returned; every present field gets its call when every upload and
   update of the run succeeds, and the first step that fails ends the run, so
   no call is issued for the fields after it. *)
C4_OrderedCalls ==
    /\ IsPrefix(TagsOf(calls), TagsSet(values))
    /\ Len(uploadCalls) + Len(calls) - Len(outcomes)
          = (IF pc.at \in {"upload", "update"} THEN 1 ELSE 0)
    /\ \A i \in 1..(Len(outcomes) - 1) : Succeeded(outcomes[i])
    /\ (\E i \in 1..Len(outcomes) : ~Succeeded(outcomes[i])) => RunEnded
    /\ (RunEnded /\ \A i \in 1..Len(outcomes) : Succeeded(outcomes[i]))
          => TagsOf(calls) = TagsSet(values)

C4_Witness ==
    /\ pc.at = "resolved"
    /\ TagsOf(calls) = ClaimTags
    /\ TagsSet(values) = ClaimTags
    /\ Len(outcomes) = 7

(* C5 (as stated): when the thumbnail or icon step fails, the step reports an
   error and the calls of the remaining present fields are still issued. *)
C5_Original ==
    (RunEnded /\ failedStep \in {1, 2})
        => /\ \E i \in 1..Len(toasts) : toasts[i].title = "Error"
           /\ \A n \in (failedStep + 1)..5 :
                FieldSet(values, n)
                    => IF n = 2 THEN \E i \in 1..Len(uploadCalls) : uploadCalls[i] = "icon"
                       ELSE \E i \in 1..Len(calls) : calls[i].tag = ClaimTags[n]

(* C5 (amended): when the thumbnail or icon step fails (the upload throws or
   returns no uuid, or the update throws or returns a status other than 200),
   the run ends there with exactly one notification, that step's error; no
   upload or update call of any later field is issued and no success
   notification is emitted. *)
C5_FileStepFailureEndsRun ==
    (failedStep \in {1, 2})
        => /\ pc.at = "resolved"
           /\ toasts = <<[title |-> "Error",
                          description |-> IF failedStep = 1
                                             THEN "Failed to update thumbnail."
                                             ELSE "Failed to update icon."]>>
           /\ \A i \in 1..Len(calls) :
                 \E n \in 1..failedStep : calls[i].tag = ClaimTags[n]
           /\ \A i \in 1..Len(uploadCalls) :
                 \E n \in 1..failedStep : uploadCalls[i] = Fields[n]

C5_Witness ==
    /\ failedStep = 1
    /\ pc.at = "resolved"
    /\ TagsSet(values) = ClaimTags
    /\ calls = <<>>
    /\ uploadCalls = <<"thumbnail">>
    /\ toasts = <<[title |-> "Error", description |-> "Failed to update thumbnail."]>>

(* C6 (as stated): every finished run with at least one non-empty field ends
   with the success notification "Group data updated". *)
C6_Original ==
    (RunEnded /\ StepsSet(values) # <<>>)
        => (toasts # <<>> /\ toasts[Len(toasts)] = SuccessReported)

(* C6 (amended): a finished run with at least one non-empty field ends with
   the success notification "Group data updated" exactly when every upload
   and update of the run succeeded; a run in which a step failed emits no
   success notification: it ends at that step with one error notification,
   or with none when a name, description or jsondescription call throws. *)
C6_SuccessOnlyWithoutFailure ==
    (RunEnded /\ StepsSet(values) # <<>>)
        => /\ (failedStep = 0) => toasts = <<SuccessReported>>
           /\ (failedStep # 0)
                 => /\ \A i \in 1..Len(toasts) : toasts[i].title = "Error"
                    /\ Len(toasts) = (IF pc.at = "rejected" THEN 0 ELSE 1)
           /\ (failedStep = 0) <=> (\A i \in 1..Len(outcomes) : Succeeded(outcomes[i]))

C6_Witness ==
    /\ RunEnded
    /\ failedStep = 3
    /\ pc.at = "resolved"
    /\ FieldSet(values, 4)
    /\ toasts = <<EmptyReported>>

----------------------------------------------------------------------------
(* Claims about useMediaGallery *)

GalleryRunEnded == galleryPc \in {"resolved", "rejected"}

\* The uuids of files 0..k-1, in submission order.
FirstFiles(k) == [i \in 1..k |-> "uuid-" \o ToString(i - 1)]
ImagesOf(g) == SelectSeq(g, LAMBDA e : e \notin VideoUrls)
GalleryErrors == SelectSeq(galleryToasts, LAMBDA t : t.title = "Error")

(* C7: an add run over n image files whose first failure (an upload failure
   or a commit that does not return 200) is at index k has uploaded files
   0..k and no later one, has committed exactly files 0..k-1 as separate
   entries in submission order, and has emitted exactly one failure
   notification. *)
C7_Original ==
    (GalleryRunEnded /\ galleryUploads # <<>> /\ count < galleryValues.image)
        => /\ galleryUploads = [i \in 1..(count + 1) |-> i - 1]
           /\ ImagesOf(gallery) = FirstFiles(count)
           /\ Len(GalleryErrors) = 1

\* The part of C7 about uploads and commits, which every run satisfies.
C7_HaltsAtFirstFailure ==
    /\ ImagesOf(gallery) = FirstFiles(count)
    /\ Len(galleryUploads) <= count + 1
    /\ \A i \in 1..Len(galleryUploads) : galleryUploads[i] = i - 1
    /\ (GalleryRunEnded /\ galleryUploads # <<>> /\ count < galleryValues.image)
          => /\ Len(galleryUploads) = count + 1
             /\ Len(GalleryErrors) = (IF galleryPc = "rejected" THEN 0 ELSE 1)

----------------------------------------------------------------------------
(* Claims about useCustomDomain *)

(* C8: every add mutation that has settled, whatever its result (status 200,
   another status, or a failure), has invalidated ["domain-config"] exactly
   once and thereby started exactly one refetch; the cached config is never
   patched locally: it only ever holds what a fetch returned, and a fetch is
   in flight until the refetch after the last settled mutation has returned. *)
C8_InvalidateOnSettle ==
    /\ domainInvalidations = Len(domainOutcomes)
    /\ domainRefetches = Len(domainOutcomes)
    /\ domainData \in domainFetched \cup {"undefined"}
    /\ (~domainFetching /\ domainPending = <<>>) => domainData = serverDomain

C8_Witness ==
    /\ \A o \in {"200", "400", "throw"} :
          \E i \in 1..Len(domainOutcomes) : domainOutcomes[i] = o
    /\ domainInvalidations = 3
    /\ domainRefetches = 3
    /\ ~domainFetching
    /\ domainData \in {"a.com", "b.com"}

----------------------------------------------------------------------------
(* Claims about useGroupChatOnline *)

AllUserIds == {"user-" \o ToString(c) : c \in 1..MaxClients}

(* C9: once all N clients have reached SUBSCRIBED and published their
   identity on the "tracking" channel, then, the channel's messages being
   delivered, every client that stays mounted eventually has all N user ids
   in its online-members state. *)
C9_PresenceConverges ==
    (\A c \in Clients : tracked[c] /\ status[c] = "SUBSCRIBED")
        ~> (\A c \in Clients : status[c] = "CLOSED" \/ AllUserIds \subseteq online[c])

C9_Witness ==
    /\ \A c \in Clients : serverSide[c] = "tracked" /\ status[c] = "SUBSCRIBED"
    /\ \A c \in Clients : online[c] = AllUserIds
    /\ \A c \in Clients : inbox[c] = <<>>

----------------------------------------------------------------------------
(* Claims about useChatWindow *)

(* C10: when the history fetch has resolved with [message 1] and the live
   insert of message 2 was delivered after it, the chat state is exactly
   [1, 2], and stays so under any later render of the hook. *)
C10_Original ==
    (isFetched /\ chatData = <<1>> /\ deliveredEarly = <<>> /\ deliveredLive = <<2>>)
        => chat = <<1, 2>>

----------------------------------------------------------------------------
(* C11: every change of debounce to a non-empty value issues exactly one
   refetch, for that value, and starts its fetch; a change of debounce to the
   empty value issues no refetch, starts no fetch, dispatches onClearSearch
   once and leaves the store without search results. *)
C11_DebounceTransitions ==
    [][debounce' # debounce =>
          IF debounce' # ""
             THEN /\ fetches' = Append(fetches, debounce')
                  /\ debounce' \in fetching'
                  /\ clears' = clears
             ELSE /\ fetches' = fetches
                  /\ fetching' = fetching
                  /\ clears' = clears + 1
                  /\ searchStore' = NoSearch]_vars

C11_Witness ==
    /\ Len(fetches) >= 2
    /\ fetches[1] # fetches[2]
    /\ fetchedKeys # {}
    /\ debounce = ""
    /\ clears >= 2
    /\ searchStore.data = <<>>

----------------------------------------------------------------------------
\* A response is stale when a response to a later refetch arrived before it.
LastLanded(l) == l[Len(l)]
StaleLanded(l) ==
    /\ Len(l) >= 2
    /\ \E i \in 1..(Len(l) - 1) : l[i].at > LastLanded(l).at

(* C14 (as stated): when the response to an older search arrives after the
   response to a newer one, the store then holds the older search's
   results. *)
C14_Original ==
    [][(searchMounted /\ landed' # landed /\ StaleLanded(landed'))
          => searchStore'.data = Groups(LastLanded(landed').key)]_vars

(* C14 (amended): a response changes the store only when it answers the
   query of the current debounce, and then the store holds that query's
   results; a response to any other query, a stale one included, leaves the
   store as it is.  The store never holds results of a query other than the
   current debounce. *)
C14_StoreFollowsDebounce ==
    /\ [](searchStore.data # <<>> => searchStore.data = Groups(debounce))
    /\ [][landed' # landed =>
             IF searchMounted /\ LastLanded(landed').key = debounce
                THEN searchStore' = [isSearching |-> FALSE,
                                     data |-> Groups(debounce),
                                     debounce |-> debounce]
                ELSE searchStore' = searchStore]_vars

C14_Witness ==
    /\ searchMounted
    /\ StaleLanded(landed)
    /\ LastLanded(landed).key # debounce
    /\ debounce # ""
    /\ searchStore.data = Groups(debounce)

----------------------------------------------------------------------------
(* C15: at most one debounce timer is pending at any time and none after
   unmount; debounce changes only while the hook is mounted, and only to the
   query held by the one pending timer, which is the current query: a timer
   cleared by a query change or by the unmount never writes debounce. *)
C15_TimerCancellation ==
    /\ [](/\ Len(delayInputTimeoutId) <= 1
          /\ delayInputTimeoutId # <<>> => delayInputTimeoutId = <<query>>
          /\ ~searchMounted => delayInputTimeoutId = <<>>)
    /\ [][debounce' # debounce =>
             /\ searchMounted
             /\ delayInputTimeoutId = <<query>>
             /\ debounce' = query]_vars

C15_Witness ==
    /\ ~searchMounted
    /\ delayInputTimeoutId = <<>>
    /\ nChanges >= 2
    /\ debounce # ""
    /\ query # debounce

----------------------------------------------------------------------------
(* C12: while a gallery add mutation is in flight no second add starts, and
   while a gallery remove mutation is in flight every remove button is
   disabled, so at most one remove mutation is in flight at any time. *)
C12_Original ==
    /\ removing # <<>> => \A m \in Media : RemoveButtonDisabled(m)
    /\ Len(removing) <= 1

----------------------------------------------------------------------------
(* C20: a run of the add mutation that emitted the success notification
   "Group gallery updated" had every commit it attempted return status 200,
   and emitted no error notification. *)
C20_Original ==
    (GalleryRunEnded
        /\ \E i \in 1..Len(galleryToasts) :
              galleryToasts[i] = SuccessToast("Group gallery updated"))
        => /\ Len(gallery) = Len(galleryCommits)
           /\ GalleryErrors = <<>>

----------------------------------------------------------------------------
StatusOrder == <<"DISCONNECTED", "JOINING", "SUBSCRIBED", "CLOSED">>
Rank(st) == CHOOSE i \in 1..Len(StatusOrder) : StatusOrder[i] = st

(* C13: a client's channel status only moves forward along DISCONNECTED,
   JOINING, SUBSCRIBED, CLOSED, one stage at a time except that unmount
   closes it from JOINING too; the identity payload is published in the step
   that receives SUBSCRIBED and never while the status is DISCONNECTED or
   JOINING; a mounted hook has opened exactly one channel, and unmount is
   the one step that unsubscribes it and closes it. *)
C13_PresenceLifecycle ==
    /\ [](\A c \in Clients :
             /\ tracked[c] => status[c] \in {"SUBSCRIBED", "CLOSED"}
             /\ channels[c] = IF status[c] = "DISCONNECTED" THEN 0 ELSE 1
             /\ unsubscribes[c] = IF status[c] = "CLOSED" THEN 1 ELSE 0)
    /\ [][\A c \in Clients :
             /\ status'[c] # status[c] =>
                   \/ Rank(status'[c]) = Rank(status[c]) + 1
                   \/ status[c] = "JOINING" /\ status'[c] = "CLOSED"
             /\ (tracked'[c] /\ ~tracked[c]) =>
                   status[c] = "JOINING" /\ status'[c] = "SUBSCRIBED"
             /\ (status[c] = "JOINING" /\ status'[c] = "SUBSCRIBED") => tracked'[c]
          ]_vars

C13_Witness ==
    /\ \E c \in Clients :
          /\ status[c] = "CLOSED"
          /\ tracked[c]
          /\ serverSide[c] = "gone"
          /\ channels[c] = 1
          /\ unsubscribes[c] = 1
    /\ \E c \in Clients :
          /\ status[c] = "JOINING"
          /\ rejected[c]
          /\ ~tracked[c]

----------------------------------------------------------------------------
(* C16: every change event on the Message table that the subscription
   delivers has its new row appended to the chat state by the handler,
   whatever the row is. *)
C16_Original ==
    [][Len(changes') < Len(changes)
          => chat' = chat \o Head(changes).new]_vars

----------------------------------------------------------------------------
(* C17: whenever the data of the group-info query is an answer whose status
   is not 200, the hook's render has called router.push("/group/create"). *)
C17_NotFoundRedirect ==
    (groupInfo \in InfoStatuses /\ groupInfo # "200") => redirecting

C17_Witness ==
    /\ groupInfo = "400"
    /\ ~infoFetching
    /\ invalidated
    /\ redirecting

----------------------------------------------------------------------------
(* C18: in useGroupSettings and in useGroupAbout, after any sequence of
   changes of the structured document and of the plain description, the
   form's jsondescription is the JSON text of the current document and its
   description is the current plain description; a submit sends these, never
   the values of an earlier edit. *)
C18_DescriptionsSynchronised ==
    /\ [](\A h \in Editors :
             /\ formFields[h].jsondescription = Stringify(onJsonDescription[h])
             /\ formFields[h].description = onDescription[h])
    /\ [][\A h \in Editors :
             sentValues'[h] # sentValues[h] =>
                /\ sentValues'[h][1].jsondescription = Stringify(onJsonDescription[h])
                /\ sentValues'[h][1].description = onDescription[h]]_vars

C18_Witness ==
    /\ nEdits >= 3
    /\ onJsonDescription["about"].content # <<>>
    /\ onDescription["about"] = "e"
    /\ sentValues["about"] # <<>>
    /\ sentValues["about"][1].description = "d"
    /\ formFields["about"].description = "e"
    /\ formFields["about"].jsondescription = Stringify(onJsonDescription["about"])

----------------------------------------------------------------------------
\* The events of the settled attempts os, in order, when an attempt with
\* result o leaves the events Of[o].
RECURSIVE EventsOf(_, _)
EventsOf(os, Of) ==
    IF os = <<>> THEN <<>> ELSE Of[Head(os)] \o EventsOf(Tail(os), Of)

(* C19 (as stated): every add-domain attempt that has settled has produced
   exactly one notification, titled "Success" when its result's status is
   200 and "Error" otherwise, followed by the invalidation of
   ["domain-config"]. *)
C19_Original ==
    domainEvents = EventsOf(domainOutcomes,
                            [o \in AddResults |->
                                <<IF o = "200" THEN "Success" ELSE "Error",
                                  "invalidate">>])

(* C19 (amended): an add-domain attempt whose call returned a result has
   produced exactly one notification, titled "Success" when the status is 200
   and "Error" otherwise, followed by the invalidation of ["domain-config"];
   an attempt whose call threw has produced no notification, only the
   invalidation. *)
C19_OutcomeReporting ==
    /\ domainEvents = EventsOf(domainOutcomes,
                               [o \in AddResults |->
                                   IF o = "throw" THEN <<"invalidate">>
                                   ELSE <<IF o = "200" THEN "Success" ELSE "Error",
                                          "invalidate">>])
    /\ domainToasts = SelectSeq(domainEvents, LAMBDA e : e # "invalidate")

C19_Witness ==
    /\ domainOutcomes = <<"200", "throw", "400">>
    /\ domainEvents = <<"Success", "invalidate", "invalidate", "Error", "invalidate">>

----------------------------------------------------------------------------
(* C21: in an add run with a video url, the url's commit is the run's first
   call and is issued exactly once, no image being uploaded before it has
   returned; when it returns a status other than 200 the run has ended with
   exactly one notification, the error, with no image uploaded or committed
   and no success notification. *)
C21_VideoFirst ==
    /\ (galleryValues.videourl # "" /\ galleryPc # "idle") =>
          /\ galleryCommits # <<>>
          /\ Head(galleryCommits) = galleryValues.videourl
          /\ Len(SelectSeq(galleryCommits,
                           LAMBDA e : e = galleryValues.videourl)) = 1
          /\ galleryPc = "video" => galleryUploads = <<>>
    /\ videoResult = "400" =>
          /\ galleryPc = "resolved"
          /\ galleryToasts = <<ErrorToast("message")>>
          /\ galleryUploads = <<>>
          /\ galleryCommits = <<galleryValues.videourl>>
          /\ gallery = <<>>

C21_Witness ==
    /\ galleryValues.videourl # ""
    /\ galleryValues.image >= 2
    /\ videoResult = "400"
    /\ galleryPc = "resolved"
    /\ galleryToasts = <<ErrorToast("message")>>

----------------------------------------------------------------------------
(* C22: the hook's render calls router.push("/group/create") only when the
   data of the group-info query is a fetched answer whose status is not 200:
   not while no answer has arrived, and not with an answer of status 200. *)
C22_Original ==
    redirecting => (groupInfo \in InfoStatuses /\ groupInfo # "200")

----------------------------------------------------------------------------
(* C23: the remove button is rendered only for a viewer who is the group's
   owner; for any other viewer, whatever is done on the gallery, no
   confirmation toast has been opened, no remove mutation has been started
   and none has reported. *)
C23_OwnerOnlyRemoval ==
    /\ \A u \in Users : RemoveButtonRendered(u) => u = GroupUserid
    /\ userid # GroupUserid =>
          /\ confirmOpen = {}
          /\ removing = <<>>
          /\ nRemoves = 0
          /\ removeToasts = <<>>
          /\ \A m \in Media : ~buttonPending[m]

C23_Witness ==
    /\ userid # GroupUserid
    /\ activeMedia = "m2"
    /\ nRemoves = 0

----------------------------------------------------------------------------
(* C25 (as stated): the "table-db-changes" subscription opened on mount is
   closed on unmount: while the component is unmounted no subscription is
   live and the handler has dispatched no row, and however often the
   component mounts, at most one subscription is live. *)
C25_Original ==
    /\ ~chatMounted => subscriptions = 0
    /\ deliveredUnmounted = <<>>
    /\ subscriptions <= 1

----------------------------------------------------------------------------
(* C24 (as stated): of the requests the middleware runs for, one to a
   sign-in or sign-up route is never passed to the auth guard, and every
   other one is. *)
C24_Original ==
    \A i \in 1..Len(requests) :
        requests[i].ran =>
            (requests[i].protect <=> ~IsPublicRoute(requests[i].path))

----------------------------------------------------------------------------
(* C26 (as stated): for every menu item and group id, the desktop and the
   mobile link lead to the same path, /group/{groupId}{menuItem.path}, and
   a click on either sets the active section to menuItem.path. *)
C26_Original ==
    /\ \A i \in 1..Len(clicks) :
          clicks[i].href = "/group/" \o clicks[i].groupId \o clicks[i].path
    /\ clicks # <<>> =>
          /\ section = clicks[Len(clicks)].path
          /\ location = clicks[Len(clicks)].href

====
